---- MODULE Spec2Model ----
(***************************************************************************)
(* Model of the authenticated-request core of rust-osauth:                 *)
(*   src/src/identity.rs  Password identity backend (token cache, refresh, *)
(*                        authenticated request, endpoint lookup)          *)
(*   src/src/client.rs    AuthenticatedClient, RequestBuilder, error       *)
(*                        message extraction                               *)
(* Time is counted in minutes.  An Option<T> is a sequence of length <= 1. *)
(***************************************************************************)
EXTENDS Integers, Sequences, FiniteSets, TLC

\* ------------------------------------------------------------------ bounds
NumProcs == 2
NumHandles == 2
NumBackends == 2
MaxNow == 1
MaxRequests == 2
NumTransports == 2
MaxRecords == 1
MaxEndpoints == 2
MaxItems == 4
MaxPageSize == 2

\* identity.rs:36
TOKEN_MIN_VALIDITY == 10

Procs == 1..NumProcs
Handles == 1..NumHandles
Backends == 1..NumBackends
Transports == 1..NumTransports

\* ------------------------------------------------------- identity service
TokenValues == {"tokA", "tokB"}

\* Expiry instants the identity service may put into a token: around the
\* minimum validity window for every instant of the model's clock (a token
\* expiring at TOKEN_MIN_VALIDITY + n has exactly the minimum left at n).
Expiries == (TOKEN_MIN_VALIDITY + 1)..(TOKEN_MIN_VALIDITY + MaxNow + 1)

Endpoint(i, r, u) == [interface |-> i, region |-> r, url |-> u]

CatalogA ==
    << [type |-> "compute",
        endpoints |-> << Endpoint("public", <<"R1">>, "http://a/compute"),
                         Endpoint("internal", <<"R2">>, "not a url") >>] >>

CatalogB ==
    << [type |-> "compute",
        endpoints |-> << Endpoint("internal", <<"R2">>, "http://b/compute-int"),
                         Endpoint("public", <<"R2">>, "http://b/compute-r2"),
                         Endpoint("public", <<"R1">>, "http://b/compute-r1") >>],
       [type |-> "image",
        endpoints |-> << Endpoint("public", <<>>, "http://b/image") >>] >>

\* The catalog the identity service sends along with each token value.
CatalogWith(value) == IF value = "tokA" THEN CatalogA ELSE CatalogB

Tokens == { [value |-> v, expires_at |-> e, catalog |-> CatalogWith(v)] :
              v \in TokenValues, e \in Expiries }

\* What comes back for the POST to the token endpoint: a transport failure,
\* an error status, or a 2xx response with (or without) the x-subject-token
\* header and a body that decodes as protocol::TokenRoot or does not.
TokenResponses ==
    [status : {"neterr", "http_error"}, header : {"missing"}, body : {<<>>}]
    \cup
    { [status |-> "http_ok", header |-> h, body |-> b] :
        h \in {"missing", "invalid"}, b \in {<<>>, <<[expires_at |-> TOKEN_MIN_VALIDITY + 1,
                                                      catalog |-> CatalogA]>>} }
    \cup
    { [status |-> "http_ok", header |-> v, body |-> <<>>] : v \in TokenValues }
    \cup
    { [status |-> "http_ok", header |-> v,
       body |-> <<[expires_at |-> e, catalog |-> CatalogWith(v)]>>] :
        v \in TokenValues, e \in Expiries }

ServiceTypes == {"compute", "image"}
Interfaces == {<<>>, <<"internal">>}

\* Region configured on each backend (Password::set_region).
RegionOf(b) == IF b = 1 THEN <<"R1">> ELSE <<>>

\* ------------------------------------------------------ error bodies
\* A text is a record: Raw(s) is the text s, which is not JSON; Enc(v) is the
\* JSON text of the value v.  A JSON value is a string (of a text), a
\* number, null, an array (a sequence of values), or an object: a function
\* from Keys to values, Absent for a key the object does not have.
Raw(s) == [j |-> "raw", s |-> s]
Enc(v) == [j |-> "json", v |-> v]

Absent == [t |-> "absent"]
JNull == [t |-> "null"]
JNum == [t |-> "num"]
JStr(text) == [t |-> "str", s |-> text]
JObj(o) == [t |-> "obj", o |-> o]
JArr(a) == [t |-> "arr", a |-> a]

MessageFields == {"message", "faultstring", "title", "error_message"}
Keys == MessageFields \cup {"k1", "k2"}

EmptyObject == [k \in Keys |-> Absent]

\* The keys an object has.
KeysOf(o) == { k \in Keys : o[k] # Absent }

\* serde_json::from_str, as far as a JSON value: nothing if the text is not JSON.
ParseJson(text) == IF text.j = "json" THEN <<text.v>> ELSE <<>>

\* Deserialize for Option<String>: "bad" for a value of another type.
DeOptionString(v) ==
    IF v.t \in {"absent", "null"} THEN [ok |-> TRUE, val |-> <<>>]
    ELSE IF v.t = "str" THEN [ok |-> TRUE, val |-> <<v.s>>]
    ELSE [ok |-> FALSE, val |-> <<>>]

\* #[derive(Deserialize)] struct Message: from an object, unknown keys
\* ignored, or from an array of as many elements as the struct has fields,
\* taken in the order of declaration (the derived visitor has visit_map and
\* visit_seq); nothing if the value is neither or a field has a wrong type.
DeMessage(v) ==
    IF v.t = "obj"
    THEN IF \E k \in MessageFields : ~DeOptionString(v.o[k]).ok THEN <<>>
         ELSE <<[k \in MessageFields |-> DeOptionString(v.o[k]).val]>>
    ELSE IF v.t = "arr"
    THEN IF Len(v.a) # 4 \/ \E i \in 1..Len(v.a) : ~DeOptionString(v.a[i]).ok
         THEN <<>>
         ELSE <<[message |-> DeOptionString(v.a[1]).val,
                 faultstring |-> DeOptionString(v.a[2]).val,
                 title |-> DeOptionString(v.a[3]).val,
                 error_message |-> DeOptionString(v.a[4]).val]>>
    ELSE <<>>

\* Mutant: the untagged enum tries the Message variant before the Map.
DeErrorResponseMessageFirst(v) ==
    IF DeMessage(v) # <<>>
    THEN <<[variant |-> "Message", map |-> EmptyObject, msg |-> DeMessage(v)]>>
    ELSE IF v.t = "obj" /\ \A k \in KeysOf(v.o) : DeMessage(v.o[k]) # <<>>
    THEN <<[variant |-> "Map", map |-> v.o, msg |-> <<>>]>>
    ELSE <<>>

\* #[serde(untagged)] enum ErrorResponse: the first variant that fits, Map
\* (every value of the object is a Message) before Message.
DeErrorResponse(v) ==
    IF v.t = "obj" /\ \A k \in KeysOf(v.o) : DeMessage(v.o[k]) # <<>>
    THEN <<[variant |-> "Map", map |-> v.o, msg |-> <<>>]>>
    ELSE IF DeMessage(v) # <<>>
    THEN <<[variant |-> "Message", map |-> EmptyObject, msg |-> DeMessage(v)]>>
    ELSE <<>>

\* Option::or
Or(a, b) == IF a # <<>> THEN a ELSE b

\* Mutant: title is looked at before faultstring and message.
FirstPresentTitleFirst(msg) == Or(Or(msg.title, msg.faultstring), msg.message)

\* self.message.or(self.faultstring).or(self.title)
FirstPresent(msg) == Or(Or(msg.message, msg.faultstring), msg.title)

\* Mutant: the inner message is converted with recursion allowed.
InnerRecursiveOn == TRUE

\* msg.convert(false): the flag Message::convert passes when it calls itself.
InnerRecursive == FALSE

RECURSIVE Convert(_, _)
\* Message::convert: the message, and how deep the calls of convert nested.
Convert(msg, recursive) ==
    LET value == FirstPresent(msg)
    IN  IF value # <<>> THEN [out |-> value, depth |-> 0]
        ELSE IF recursive
        THEN IF msg.error_message # <<>>
             THEN LET json == ParseJson(msg.error_message[1])
                      inner == IF json = <<>> THEN <<>> ELSE DeMessage(json[1])
                  IN  IF inner = <<>> THEN [out |-> <<>>, depth |-> 0]
                      ELSE LET r == Convert(inner[1], InnerRecursive)
                           IN  [out |-> r.out, depth |-> r.depth + 1]
             ELSE [out |-> <<>>, depth |-> 0]
        ELSE [out |-> <<>>, depth |-> 0]

\* extract_message, `first` being the key of the entry that
\* map.into_iter().next() yields when the body is a map with entries.
ExtractMessage(text, first) ==
    LET json == ParseJson(text)
        parsed == IF json = <<>> THEN <<>> ELSE DeErrorResponse(json[1])
        none == [out |-> <<>>, depth |-> 0]
        r == IF parsed = <<>> THEN none
             ELSE IF parsed[1].variant = "Map"
             THEN IF first \in KeysOf(parsed[1].map)
                  THEN Convert(DeMessage(parsed[1].map[first])[1], TRUE)
                  ELSE none
             ELSE Convert(parsed[1].msg[1], TRUE)
    IN  [message |-> IF r.out = <<>> THEN text ELSE r.out[1], depth |-> r.depth]

\* The entries map.into_iter().next() may yield for the text: any key of a
\* body that deserializes as the Map variant (the HashMap's order is not the
\* body's), "" when there is none.
FirstKeys(text) ==
    LET json == ParseJson(text)
        parsed == IF json = <<>> THEN <<>> ELSE DeErrorResponse(json[1])
    IN  IF parsed # <<>> /\ parsed[1].variant = "Map" /\ KeysOf(parsed[1].map) # {}
        THEN KeysOf(parsed[1].map)
        ELSE {""}

\* ---- the error bodies of the model
\* An object with the given values under message, faultstring, title and
\* error_message, and no other key.
MsgObject(m, f, t, e) ==
    [k \in Keys |-> CASE k = "message" -> m
                      [] k = "faultstring" -> f
                      [] k = "title" -> t
                      [] k = "error_message" -> e
                      [] OTHER -> Absent]

\* The objects with each of message, faultstring and title absent or the
\* string naming the field and the level, and error_message among ems.
MsgObjects(level, ems) ==
    { MsgObject(m, f, t, e) :
        m \in {Absent, JStr(Raw("message " \o level))},
        f \in {Absent, JStr(Raw("faultstring " \o level))},
        t \in {Absent, JStr(Raw("title " \o level))},
        e \in ems }

\* Innermost objects; objects whose error_message may encode one of those;
\* objects whose error_message may encode one of the latter.
Objects0 == MsgObjects("0", {Absent})
Objects1 == MsgObjects("1", {Absent, JNum, JStr(Raw("not json"))}
                            \cup { JStr(Enc(JObj(o))) : o \in Objects0 })
Objects2 == MsgObjects("2", {Absent, JNull, JStr(Raw("not json"))}
                            \cup { JStr(Enc(JObj(o))) : o \in Objects1 })

\* Objects with a single key, whose value is an object of Objects1, a
\* number, or an object with a field of a wrong type.
SingleKeyObjects ==
    { [EmptyObject EXCEPT ![k] = v] :
        k \in {"k1", "error_message", "message"},
        v \in { JObj(o) : o \in Objects1 }
              \cup {JNum, JObj(MsgObject(JNum, Absent, JStr(Raw("title 1")), Absent))} }

\* Objects with two keys, each an object of Objects0.
TwoKeyObjects ==
    { [EmptyObject EXCEPT !["k1"] = JObj(o1), !["k2"] = JObj(o2)] :
        o1 \in Objects0, o2 \in Objects0 }

\* Arrays: of four elements that are strings or null, of four elements one
\* of which is a number, and of one element.
Arrays ==
    { JArr(<<m, f, JNull, JNull>>) :
        m \in {JNull, JNum, JStr(Raw("first of array"))},
        f \in {JNull, JStr(Raw("second of array"))} }
    \cup {JArr(<<JStr(Raw("only of array"))>>)}

\* Bodies with an array: the body itself, the value of the single key of
\* the body, or what the error_message of the body encodes.
ArrayBodies ==
    { Enc(a) : a \in Arrays }
    \cup { Enc(JObj([EmptyObject EXCEPT !["k1"] = a])) : a \in Arrays }
    \cup { Enc(JObj(MsgObject(Absent, Absent, Absent, JStr(Enc(a))))) : a \in Arrays }

Bodies ==
    {Raw("<html><body>I failed</body></html>"), Enc(JNum), Enc(JStr(Raw("I failed")))}
    \cup { Enc(JObj(o)) : o \in Objects2 \cup SingleKeyObjects \cup TwoKeyObjects }
    \cup ArrayBodies

\* The identity backend and its clients:
\*   now            Local::now(), in minutes
\*   cache          cached_token of each Password backend
\*   stored         per family of clones: the credential last handed to set in
\*                  a call of that family, and the handle of that call
\*   clients        the AuthenticatedClient handles: the backend each points
\*                  to, the family of clones it belongs to, and its inner
\*                  client (the transport)
\*   nextBackend    the next Password backend set_auth_type will bring
\*   calls          each task's call in progress; for a request: the inner
\*                  client its builder holds, whether the builder holds the
\*                  error of a mutator, the requests it handed to the
\*                  transport
\*   tokenRequests  the POSTs sent to the token endpoint so far
\* An error response under classification:
\*   body           the text of the response
\*   extracted      the message extract_message returned, once it has
\*   depth          how many times Message::convert called itself
\*   status         the status code of the response
\*   checked        what check returned, once it has
\* An endpoint under resolution:
\*   catalog        the service catalog of the credential
\*   query          the service type and interface get_endpoint was given,
\*                  and the region of the backend
\*   lookup         what find_endpoint and get_endpoint returned, once they have
\* A paginated listing:
\*   server         the items the server holds (1..items, in its order) and
\*                  the size of the pages it sends
\*   builder        the request builder fetch_paginated was called on: its
\*                  body, whether its request is an error of an earlier
\*                  step of its construction, its query parameters
\*   cloned         what a try_clone of the builder by the caller returned,
\*                  once it has, with what the caller added to the clone
\*   pg             the pagination: state, starting identifier, marker (last
\*                  identifier seen), limit, count of the items emitted,
\*                  items of the page still to emit
\*   emitted        the items the sequence has yielded
\*   failure        the error the sequence has yielded, "" if none
\*   panicked       whether fetch_next panicked
\*   fetches        the calls of fetch so far
\*   requests       the query of each page request executed so far
VARIABLES now, cache, stored, clients, nextBackend, calls, tokenRequests,
          body, extracted, depth, status, checked,
          catalog, query, lookup,
          server, builder, cloned, pg, emitted, failure, panicked, fetches,
          requests

idvars == <<now, cache, stored, clients, nextBackend, calls, tokenRequests>>
msgvars == <<body, extracted, depth, status, checked>>
catvars == <<catalog, query, lookup>>
pagevars == <<server, builder, cloned, pg, emitted, failure, panicked, fetches,
              requests>>
othervars == <<msgvars, catvars, pagevars>>
nonmsgvars == <<idvars, catvars, pagevars>>
noncatvars == <<idvars, msgvars, pagevars>>
nonpagevars == <<idvars, msgvars, catvars>>
vars == <<now, cache, stored, clients, nextBackend, calls, tokenRequests,
          body, extracted, depth, status, checked,
          catalog, query, lookup,
          server, builder, cloned, pg, emitted, failure, panicked, fetches,
          requests>>

\* ------------------------------------------------------------------ cache
\* ValueCache<T>: one optional slot behind a lock.  The closures handed to
\* validate and extract are functions on the values a slot can hold.
SlotValues == [value : TokenValues, expires_at : Expiries, catalog : {CatalogA, CatalogB}]

ValueCacheValidate(slot, pred) == Len(slot) = 1 /\ pred[slot[1]]

ValueCacheExtract(slot, mapper) ==
    IF Len(slot) = 1 THEN <<mapper[slot[1]]>> ELSE <<>>

ValueCacheSet(slot, value) == <<value>>

\* ---------------------------------------------------------------- catalog
\* Mutant: of several candidates the last in catalog order is picked.
FindEndpointLast(cat, service_type, interface, region) ==
    LET recs == SelectSeq(cat, LAMBDA r : r.type = service_type)
    IN  IF recs = <<>> THEN [ok |-> FALSE, err |-> "EndpointNotFound", url |-> ""]
        ELSE
          LET eps == recs[1].endpoints
              byIf == SelectSeq(eps, LAMBDA e : e.interface = interface)
              byReg == IF region = <<>> THEN byIf
                       ELSE SelectSeq(byIf, LAMBDA e : e.region = region)
              cand == IF byReg = <<>> THEN byIf ELSE byReg
          IN  IF cand = <<>>
              THEN [ok |-> FALSE, err |-> "EndpointNotFound", url |-> ""]
              ELSE [ok |-> TRUE, err |-> "", url |-> cand[Len(cand)].url]

\* catalog::find_endpoint
FindEndpoint(cat, service_type, interface, region) ==
    LET recs == SelectSeq(cat, LAMBDA r : r.type = service_type)
    IN  IF recs = <<>> THEN [ok |-> FALSE, err |-> "EndpointNotFound", url |-> ""]
        ELSE
          LET eps == recs[1].endpoints
              byIf == SelectSeq(eps, LAMBDA e : e.interface = interface)
              byReg == IF region = <<>> THEN byIf
                       ELSE SelectSeq(byIf, LAMBDA e : e.region = region)
              cand == IF byReg = <<>> THEN byIf ELSE byReg
          IN  IF cand = <<>>
              THEN [ok |-> FALSE, err |-> "EndpointNotFound", url |-> ""]
              ELSE [ok |-> TRUE, err |-> "", url |-> cand[1].url]

\* The URL of endpoint i of record j of a catalog under resolution.
UrlAt(j, i) == "http://s" \o ToString(j) \o "/e" \o ToString(i)

CatUrls == { UrlAt(j, i) : j \in 1..MaxRecords, i \in 1..MaxEndpoints }

\* Url::parse, on the URLs of the model's catalogs.
UrlParses(u) == u \in {"http://a/compute", "http://b/compute-int",
                       "http://b/compute-r2", "http://b/compute-r1",
                       "http://b/image"} \cup CatUrls

\* AuthType::default_endpoint_interface
DefaultEndpointInterface == "public"

\* ------------------------------------------------------- identity backend
\* Mutant: the comparison of the validity check turned around.
TokenValidFlipped(t, n) == t.expires_at - n < TOKEN_MIN_VALIDITY

\* Mutant: a token with exactly the minimum left passes the validity check.
TokenValidInclusive(t, n) == t.expires_at - n >= TOKEN_MIN_VALIDITY

\* The closure of do_refresh: is the token valid for more than the minimum?
TokenValid(t, n) == t.expires_at - n > TOKEN_MIN_VALIDITY

\* token_from_response
TokenFromResponse(resp) ==
    IF resp.header = "invalid"
    THEN [ok |-> FALSE, err |-> "InvalidResponse", token |-> <<>>]
    ELSE IF resp.header = "missing"
    THEN [ok |-> FALSE, err |-> "InvalidResponse", token |-> <<>>]
    ELSE IF resp.body = <<>>
    THEN [ok |-> FALSE, err |-> "DecodeError", token |-> <<>>]
    ELSE [ok |-> TRUE, err |-> "",
          token |-> <<[value |-> resp.header,
                       expires_at |-> resp.body[1].expires_at,
                       catalog |-> resp.body[1].catalog]>>]

\* send_checked().and_then(token_from_response): the outcome of the POST.
TokenRequestOutcome(resp) ==
    IF resp.status = "neterr"
    THEN [ok |-> FALSE, err |-> "TransportError", token |-> <<>>]
    ELSE IF resp.status = "http_error"
    THEN [ok |-> FALSE, err |-> "StatusError", token |-> <<>>]
    ELSE TokenFromResponse(resp)

\* Mutant: the received token is dropped instead of stored.
SlotNotStored(slot, outcome) == slot

\* Mutant: a failed token request empties the slot.
SlotClearedOnFailure(slot, outcome) ==
    IF outcome.ok THEN ValueCacheSet(slot, outcome.token[1]) ELSE <<>>

\* Mutant: the slot is updated field by field, and the body is left behind.
SlotTorn(slot, outcome) ==
    IF ~outcome.ok THEN slot
    ELSE IF slot = <<>> THEN <<outcome.token[1]>>
    ELSE <<[slot[1] EXCEPT !.value = outcome.token[1].value]>>

\* .map(move |token| self.cached_token.set(token.clone())): the slot after
\* the outcome of the token request.
SlotAfterOutcome(slot, outcome) ==
    IF outcome.ok THEN ValueCacheSet(slot, outcome.token[1]) ELSE slot

\* get_token's closure: the value of the cached token.
GetToken(slot) == ValueCacheExtract(slot, [t \in SlotValues |-> t.value])

\* get_catalog's closure: the catalog of the cached token.
GetCatalog(slot) == ValueCacheExtract(slot, [t \in SlotValues |-> t.catalog])

\* How many POSTs the else branch of do_refresh sends.
RequestsPerRefresh == 1

\* Mutant: a clone gets a backend of its own instead of sharing the Arc.
CloneAuthDeep(h) == IF clients[h].auth = 1 THEN 2 ELSE 1

\* #[derive(Clone)] on AuthenticatedClient: the Arc is cloned, not the backend.
CloneAuth(h) == clients[h].auth

\* ---------------------------------------------------------------- state
IdleCall == [pc |-> "idle", op |-> "none", via |-> 0, auth |-> 0, family |-> 0,
             service |-> "", iface |-> <<>>,
             sent |-> 0, dirty |-> FALSE, result |-> "none", got |-> "",
             client |-> 0, failed |-> FALSE, wire |-> <<>>]

NoClient == [live |-> FALSE, auth |-> 0, family |-> 0, client |-> 0]

IdInit ==
    /\ now = 0
    /\ cache = [b \in Backends |-> <<>>]
    /\ stored = [f \in Backends |-> [slot |-> <<>>, by |-> 0]]
    /\ clients = [h \in Handles |->
                    IF h = 1 THEN [live |-> TRUE, auth |-> 1, family |-> 1, client |-> 1]
                    ELSE NoClient]
    /\ nextBackend = 2
    /\ calls = [p \in Procs |-> IdleCall]
    /\ tokenRequests = 0

\* No response is under classification.
NoResponse ==
    /\ body = Raw("")
    /\ extracted = <<>>
    /\ depth = 0
    /\ status = 200
    /\ checked = <<>>

\* No endpoint is under resolution.
NoLookup ==
    /\ catalog = <<>>
    /\ query = [service_type |-> "compute", interface |-> <<>>, region |-> <<>>]
    /\ lookup = <<>>

\* A request builder without body and query.
PlainBuilder == [body |-> "none", failed |-> FALSE, query |-> <<>>]

\* No listing is under way.
NoListing ==
    /\ server = [items |-> 0, pageSize |-> 1]
    /\ builder = PlainBuilder
    /\ cloned = <<>>
    /\ pg = [state |-> "Exhausted", starting_with |-> <<>>, marker |-> <<>>,
             limit |-> <<>>, count |-> 0, buffer |-> <<>>]
    /\ emitted = <<>>
    /\ failure = ""
    /\ panicked = FALSE
    /\ fetches = 0
    /\ requests = <<>>

Init ==
    /\ IdInit
    /\ NoResponse
    /\ NoLookup
    /\ NoListing

\* Mutant: do_refresh posts a token request without looking at the cache.
DoRefreshAlways(p, c) ==
    /\ tokenRequests + 1 <= MaxRequests
    /\ calls' = [calls EXCEPT ![p] = [c EXCEPT !.pc = "wait", !.sent = 1]]
    /\ tokenRequests' = tokenRequests + 1

\* do_refresh, up to the point where it returns its future: the validity
\* check on the backend's cache and, when it fails, the POST.
DoRefresh(p, c) ==
    LET valid == ValueCacheValidate(cache[c.auth],
                                    [t \in SlotValues |-> TokenValid(t, now)])
    IN  IF valid
        THEN /\ calls' = [calls EXCEPT ![p] =
                 IF c.op = "refresh"
                 THEN [c EXCEPT !.pc = "done", !.result = "ok"]
                 ELSE [c EXCEPT !.pc = "extract"]]
             /\ UNCHANGED tokenRequests
        ELSE /\ tokenRequests + RequestsPerRefresh <= MaxRequests
             /\ calls' = [calls EXCEPT ![p] =
                 [c EXCEPT !.pc = "wait", !.sent = RequestsPerRefresh]]
             /\ tokenRequests' = tokenRequests + RequestsPerRefresh

\* A call made through client handle h: it works on the backend h points to.
CallVia(h, op) ==
    [IdleCall EXCEPT !.op = op, !.via = h, !.auth = clients[h].auth,
                     !.family = clients[h].family, !.client = clients[h].client]

\* AuthenticatedClient::refresh -> Password::refresh
Refresh(p, h) ==
    /\ calls[p].pc = "idle"
    /\ clients[h].live
    /\ DoRefresh(p, CallVia(h, "refresh"))
    /\ UNCHANGED <<now, cache, stored, clients, nextBackend, othervars>>

\* AuthenticatedClient::request: the builder keeps a clone of the client.
NewRequest(p, h) ==
    /\ calls[p].pc = "idle"
    /\ clients[h].live
    /\ calls' = [calls EXCEPT ![p] = [CallVia(h, "request") EXCEPT !.pc = "built"]]
    /\ UNCHANGED <<now, cache, stored, clients, nextBackend, tokenRequests, othervars>>

\* RequestBuilder::send_unchecked -> authenticate -> Password::request
Send(p) ==
    /\ calls[p].pc = "built"
    /\ DoRefresh(p, calls[p])
    /\ UNCHANGED <<now, cache, stored, clients, nextBackend, othervars>>

\* AuthenticatedClient::get_endpoint -> Password::get_endpoint.  The service
\* type and interface of the call are first read when the catalog is, and
\* are drawn there.
GetEndpoint(p, h) ==
    /\ calls[p].pc = "idle"
    /\ clients[h].live
    /\ DoRefresh(p, CallVia(h, "get_endpoint"))
    /\ UNCHANGED <<now, cache, stored, clients, nextBackend, othervars>>

\* The token request of p completes: do_refresh's future resolves.  A call
\* in progress on the same cache is marked: a set happened during it.
TokenResponse(p, resp) ==
    LET c == calls[p]
        b == c.auth
        outcome == TokenRequestOutcome(resp)
    IN  /\ c.pc = "wait"
        /\ cache' = [cache EXCEPT ![b] = SlotAfterOutcome(cache[b], outcome)]
        /\ stored' = IF outcome.ok
                     THEN [stored EXCEPT ![c.family] =
                              [slot |-> outcome.token, by |-> c.via]]
                     ELSE stored
        /\ calls' = [q \in Procs |->
              IF q = p
              THEN IF ~outcome.ok
                   THEN [c EXCEPT !.pc = "done", !.result = outcome.err]
                   ELSE IF c.op = "refresh"
                   THEN [c EXCEPT !.pc = "done", !.result = "ok"]
                   ELSE [c EXCEPT !.pc = "extract"]
              ELSE IF outcome.ok
                      /\ (calls[q].auth = b \/ calls[q].family = c.family)
                      /\ calls[q].pc = "extract"
                   THEN [calls[q] EXCEPT !.dirty = TRUE]
                   ELSE calls[q]]
        /\ UNCHANGED <<now, clients, nextBackend, tokenRequests, othervars>>

\* Mutant: the error of find_endpoint is not passed on as it is.
ResolveEndpointErrorAsInvalid(cat, st, ifc, region) ==
    LET real_interface == IF ifc = <<>> THEN DefaultEndpointInterface ELSE ifc[1]
        ep == FindEndpoint(cat, st, real_interface, region)
    IN  IF ~ep.ok \/ ~UrlParses(ep.url) THEN [result |-> "InvalidResponse", got |-> ""]
        ELSE [result |-> "ok", got |-> ep.url]

\* Mutant: find_endpoint is not given the region of the backend.
ResolveEndpointNoRegion(cat, st, ifc, region) ==
    LET real_interface == IF ifc = <<>> THEN DefaultEndpointInterface ELSE ifc[1]
        ep == FindEndpoint(cat, st, real_interface, <<>>)
    IN  IF ~ep.ok THEN [result |-> ep.err, got |-> ""]
        ELSE IF ~UrlParses(ep.url) THEN [result |-> "InvalidResponse", got |-> ""]
        ELSE [result |-> "ok", got |-> ep.url]

\* Mutant: the URL of the endpoint is returned without being parsed.
ResolveEndpointUnparsed(cat, st, ifc, region) ==
    LET real_interface == IF ifc = <<>> THEN DefaultEndpointInterface ELSE ifc[1]
        ep == FindEndpoint(cat, st, real_interface, region)
    IN  IF ~ep.ok THEN [result |-> ep.err, got |-> ""]
        ELSE [result |-> "ok", got |-> ep.url]

\* Password::get_endpoint's closure on the catalog: find_endpoint, Url::parse.
ResolveEndpoint(cat, st, ifc, region) ==
    LET real_interface == IF ifc = <<>> THEN DefaultEndpointInterface ELSE ifc[1]
        ep == FindEndpoint(cat, st, real_interface, region)
    IN  IF ~ep.ok THEN [result |-> ep.err, got |-> ""]
        ELSE IF ~UrlParses(ep.url) THEN [result |-> "InvalidResponse", got |-> ""]
        ELSE [result |-> "ok", got |-> ep.url]

\* get_token / get_catalog: the closure after do_refresh (extract, unwrap),
\* and what Password::request / Password::get_endpoint make of its value.
Extract(p, st, ifc) ==
    LET c == calls[p]
        slot == cache[c.auth]
        tok == GetToken(slot)
        cat == GetCatalog(slot)
    IN  /\ c.pc = "extract"
        /\ c.op = "request" => st = "compute" /\ ifc = <<>>
        /\ calls' = [calls EXCEPT ![p] =
              IF c.op = "request"
              THEN IF tok = <<>>
                   THEN [c EXCEPT !.pc = "done", !.result = "panic"]
                   ELSE [c EXCEPT !.pc = "done", !.result = "ok", !.got = tok[1]]
              ELSE IF cat = <<>>
                   THEN [c EXCEPT !.pc = "done", !.result = "panic",
                                  !.service = st, !.iface = ifc]
                   ELSE LET r == ResolveEndpoint(cat[1], st, ifc, RegionOf(c.auth))
                        IN  [c EXCEPT !.pc = "done", !.result = r.result,
                                      !.got = r.got,
                                      !.service = st, !.iface = ifc]]
        /\ UNCHANGED <<now, cache, stored, clients, nextBackend, tokenRequests, othervars>>

\* The caller takes the result; the task is free for the next call.
Return(p) ==
    /\ calls[p].pc = "done"
    /\ calls' = [calls EXCEPT ![p] = IdleCall]
    /\ UNCHANGED <<now, cache, stored, clients, nextBackend, tokenRequests, othervars>>

\* Local::now() advances.
Tick ==
    /\ now < MaxNow
    /\ now' = now + 1
    /\ UNCHANGED <<cache, stored, clients, nextBackend, calls, tokenRequests, othervars>>

\* AuthenticatedClient::clone
Clone(h, h2) ==
    /\ clients[h].live
    /\ ~clients[h2].live
    /\ CloneAuth(h) \in Backends
    /\ clients' = [clients EXCEPT ![h2] =
          [live |-> TRUE, auth |-> CloneAuth(h), family |-> clients[h].family,
           client |-> clients[h].client]]
    /\ UNCHANGED <<now, cache, stored, nextBackend, calls, tokenRequests, othervars>>

\* AuthenticatedClient::set_auth_type with a new Password backend
SetAuthType(h) ==
    /\ clients[h].live
    /\ nextBackend <= NumBackends
    /\ clients' = [clients EXCEPT ![h] =
          [live |-> TRUE, auth |-> nextBackend, family |-> nextBackend,
           client |-> clients[h].client]]
    /\ nextBackend' = nextBackend + 1
    /\ UNCHANGED <<now, cache, stored, calls, tokenRequests, othervars>>

Next ==
    \/ \E p \in Procs, h \in Handles : Refresh(p, h)
    \/ \E p \in Procs, h \in Handles : NewRequest(p, h)
    \/ \E p \in Procs : Send(p)
    \/ \E p \in Procs, h \in Handles : GetEndpoint(p, h)
    \/ \E p \in Procs, resp \in TokenResponses : TokenResponse(p, resp)
    \/ \E p \in Procs, st \in ServiceTypes, ifc \in Interfaces : Extract(p, st, ifc)
    \/ \E p \in Procs : Return(p)
    \/ Tick
    \/ \E h \in Handles, h2 \in Handles : Clone(h, h2)
    \/ \E h \in Handles : SetAuthType(h)

Spec == Init /\ [][Next]_vars

\* ------------------------------------------------- response classification
\* Status codes on both sides of the bounds of the 4xx and 5xx ranges.
Statuses == {200, 399, 400, 404, 499, 500, 599, 600}

\* StatusCode::is_client_error, StatusCode::is_server_error
IsClientError(s) == 400 <= s /\ s < 500

\* Mutant: 500 itself is taken for no server error.
IsServerErrorAbove500(s) == 500 < s /\ s < 600

IsServerError(s) == 500 <= s /\ s < 600

\* What check returns: the response it was given, or an error with the
\* status and the message it carries.
CheckOk(resp) == [ok |-> TRUE, response |-> <<resp>>, status |-> <<>>, message |-> <<>>]
CheckErr(st, message) == [ok |-> FALSE, response |-> <<>>, status |-> st, message |-> <<message>>]

\* The error of a body that could not be read (response.text().await?): it
\* is the transport's and has no status of the response.
BodyReadError == CheckErr(<<>>, Raw("error reading the response body"))

\* A response with any of the model's bodies and statuses is to be classified.
MsgInit ==
    /\ IdInit
    /\ NoLookup
    /\ NoListing
    /\ body \in Bodies
    /\ extracted = <<>>
    /\ depth = 0
    /\ status \in Statuses
    /\ checked = <<>>

\* extract_message on the body of the response
Extract_message(first) ==
    /\ extracted = <<>>
    /\ checked = <<>>
    /\ first \in FirstKeys(body)
    /\ LET r == ExtractMessage(body, first)
       IN  extracted' = <<r.message>> /\ depth' = r.depth
    /\ UNCHANGED <<body, status, checked, nonmsgvars>>

\* check on the response; `readable` is whether response.text() gets the
\* body, `first` as in Extract_message.
Check(first, readable) ==
    /\ extracted = <<>>
    /\ checked = <<>>
    /\ IF IsClientError(status) \/ IsServerError(status)
       THEN IF readable
            THEN /\ first \in FirstKeys(body)
                 /\ LET r == ExtractMessage(body, first)
                    IN  /\ extracted' = <<r.message>>
                        /\ depth' = r.depth
                        /\ checked' = <<CheckErr(<<status>>, r.message)>>
            ELSE /\ first = ""
                 /\ checked' = <<BodyReadError>>
                 /\ UNCHANGED <<extracted, depth>>
       ELSE /\ first = "" /\ readable
            /\ checked' = <<CheckOk([status |-> status, body |-> body])>>
            /\ UNCHANGED <<extracted, depth>>
    /\ UNCHANGED <<body, status, nonmsgvars>>

MsgNext ==
    \/ \E first \in Keys \cup {""} : Extract_message(first)
    \/ \E first \in Keys \cup {""}, readable \in BOOLEAN : Check(first, readable)

SpecMsg == MsgInit /\ [][MsgNext]_vars

\* ------------------------------------------------------ endpoint resolution
RECURSIVE SeqsUpTo(_, _)
\* The sequences of at most n elements whose element at position i is in
\* elems[i].
SeqsUpTo(elems, n) ==
    IF n = 0 THEN {<<>>}
    ELSE LET shorter == SeqsUpTo(elems, n - 1)
         IN  shorter \cup { Append(q, e) : q \in { r \in shorter : Len(r) = n - 1 },
                                           e \in elems[n] }

EndpointInterfaces == {"public", "internal"}
Regions == {<<"R1">>, <<"R2">>}

\* The lists of endpoints record j of a catalog may have.
EndpointLists(j) ==
    SeqsUpTo([i \in 1..MaxEndpoints |->
                { Endpoint(f, r, UrlAt(j, i)) : f \in EndpointInterfaces, r \in Regions }],
             MaxEndpoints)

\* The catalogs the identity service may send: any records, in any order,
\* with any endpoints.
Catalogs ==
    SeqsUpTo([j \in 1..MaxRecords |->
                { [type |-> t, endpoints |-> eps] :
                    t \in ServiceTypes, eps \in EndpointLists(j) }],
             MaxRecords)

\* What get_endpoint may be asked, on a backend with or without a region.
Queries == [service_type : ServiceTypes, interface : Interfaces,
            region : {<<>>} \cup Regions]

\* get_endpoint is asked for a service of any of the catalogs.
CatInit ==
    /\ IdInit
    /\ NoResponse
    /\ NoListing
    /\ catalog \in Catalogs
    /\ query \in Queries
    /\ lookup = <<>>

\* Password::get_endpoint's closure on the catalog, and the find_endpoint in it.
Find_endpoint ==
    /\ lookup = <<>>
    /\ lookup' =
          <<[found |-> FindEndpoint(catalog, query.service_type,
                                    IF query.interface = <<>>
                                    THEN DefaultEndpointInterface
                                    ELSE query.interface[1],
                                    query.region),
             result |-> ResolveEndpoint(catalog, query.service_type,
                                        query.interface, query.region)]>>
    /\ UNCHANGED <<catalog, query, noncatvars>>

CatNext == Find_endpoint

SpecCat == CatInit /\ [][CatNext]_vars

\* --------------------------------------------------------------- pagination
\* The servers: any number of items, any page size.
Servers == [items : 0..MaxItems, pageSize : 1..MaxPageSize]

\* A query parameter; the cursor query of a page, without a marker for the
\* initial page of a listing with no starting identifier.
QueryParam(k, v) == [k |-> k, v |-> v]
CursorQuery(marker) == QueryParam("marker", marker)

\* The builders fetch_paginated may be called on: with no body, a body of
\* bytes or a streaming body, with a request that is valid or the error of
\* an earlier mutator (an invalid header, say), with or without a query.
Builders == [body : {"none", "bytes", "stream"}, failed : BOOLEAN,
             query : {<<>>, <<QueryParam("sort", <<>>)>>}]

\* The marker a request's query carries: that of its last marker parameter,
\* none without one.
MarkerOf(q) ==
    LET at == { i \in 1..Len(q) : q[i].k = "marker" }
    IN  IF at = {} THEN <<>>
        ELSE q[CHOOSE i \in at : \A j \in at : j <= i].v

\* The page the server sends for a request with query q: the next pageSize
\* items after the marker of q.
ServerPage(srv, q) ==
    LET marker == MarkerOf(q)
        from == IF marker = <<>> THEN 0 ELSE marker[1]
        to == IF from + srv.pageSize < srv.items THEN from + srv.pageSize ELSE srv.items
    IN  IF to > from THEN [i \in 1..(to - from) |-> from + i] ELSE <<>>

\* Mutant: a builder with a streaming body is cloned like any other.
Try_cloneAny(b) == IF b.failed THEN <<>> ELSE <<b>>

\* RequestBuilder::try_clone: self.inner.try_clone() has no clone for a
\* request that is an error or whose body is a stream, and a copy of its
\* own otherwise.
Try_clone(b) == IF b.failed \/ b.body = "stream" THEN <<>> ELSE <<b>>

\* RequestBuilder::query, RequestBuilder::body: a new builder, self consumed.
Query(b, q) == [b EXCEPT !.query = Append(@, q)]
Body(b) == [b EXCEPT !.body = "bytes"]

\* Mutant: the clone is fetched without the query given.
PreparedWithoutQuery(b, q) == Try_clone(b)

\* fetch_next up to the fetch: the clone with the query, none for the panic
\* of expect.
Prepared(b, q) ==
    LET c == Try_clone(b)
    IN  IF c = <<>> THEN <<>> ELSE <<Query(c[1], q)>>

\* Mutant: the base builder becomes the prepared one.
BaseBecomesPrepared(b, prepared) == prepared

\* fetch_next takes &self: the base builder after the call.
BaseAfterFetchNext(b, prepared) == b

\* How fetch may end: authenticate fails (nothing is executed), execute
\* fails, check finds an error status, the body does not deserialize, or
\* the page comes out.
FetchOutcomes == {"auth", "transport", "status", "json", "ok"}

\* send_unchecked executes a request unless authenticate failed.
Executes(outcome) == outcome # "auth"

\* Mutant: a body that does not deserialize counts as an empty page.
FetchLenient(outcome, page) ==
    IF outcome \in {"ok", "json"}
    THEN [ok |-> TRUE, page |-> IF outcome = "ok" THEN page ELSE <<>>, err |-> ""]
    ELSE [ok |-> FALSE, page |-> <<>>, err |-> outcome]

\* RequestBuilder::fetch: the page of the response, or the error of
\* whichever of authenticate, execute, check and json failed.
Fetch(outcome, page) ==
    IF outcome = "ok" THEN [ok |-> TRUE, page |-> page, err |-> ""]
    ELSE [ok |-> FALSE, page |-> <<>>, err |-> outcome]

\* The pagination before fetch_paginated is called.
NoPagination == [state |-> "none", starting_with |-> <<>>, marker |-> <<>>,
                 limit |-> <<>>, count |-> 0, buffer |-> <<>>]

\* The emitted count has reached the limit.
LimitReached(limit, count) == limit # <<>> /\ count >= limit[1]

\* paginated: the pagination as it starts.
Paginated(limit, starting_with) ==
    [state |-> IF LimitReached(limit, 0) THEN "Exhausted" ELSE "Fetching",
     starting_with |-> starting_with, marker |-> starting_with,
     limit |-> limit, count |-> 0, buffer |-> <<>>]

\* The pagination after a page has come in.
AfterPage(p, page) ==
    IF page = <<>> THEN [p EXCEPT !.state = "Exhausted"]
    ELSE [p EXCEPT !.state = "HasItems", !.marker = <<page[Len(page)]>>,
                   !.buffer = page]

\* Mutant: the limit is looked at only when a page has been emitted whole.
AfterEmitWholePages(p) ==
    LET rest == Tail(p.buffer)
    IN  IF rest = <<>>
        THEN IF LimitReached(p.limit, p.count + 1)
             THEN [p EXCEPT !.state = "Exhausted", !.count = @ + 1, !.buffer = <<>>]
             ELSE [p EXCEPT !.state = "Fetching", !.count = @ + 1, !.buffer = <<>>]
        ELSE [p EXCEPT !.count = @ + 1, !.buffer = rest]

\* The pagination after the first item of the buffer has been emitted.
AfterEmit(p) ==
    LET rest == Tail(p.buffer)
    IN  IF LimitReached(p.limit, p.count + 1)
        THEN [p EXCEPT !.state = "Exhausted", !.count = @ + 1, !.buffer = <<>>]
        ELSE IF rest = <<>>
        THEN [p EXCEPT !.state = "Fetching", !.count = @ + 1, !.buffer = <<>>]
        ELSE [p EXCEPT !.count = @ + 1, !.buffer = rest]

\* The pagination after a fetch has failed.
AfterFailure(p) == [p EXCEPT !.state = "Exhausted"]

\* A builder of any kind is at hand, for a server of any kind.
PageInit ==
    /\ IdInit
    /\ NoResponse
    /\ NoLookup
    /\ server \in Servers
    /\ builder \in Builders
    /\ cloned = <<>>
    /\ pg = NoPagination
    /\ emitted = <<>>
    /\ failure = ""
    /\ panicked = FALSE
    /\ fetches = 0
    /\ requests = <<>>

\* The caller calls try_clone on the builder.
TryClone ==
    /\ pg.state = "none"
    /\ cloned = <<>>
    /\ cloned' = <<[copy |-> Try_clone(builder)]>>
    /\ UNCHANGED <<server, builder, pg, emitted, failure, panicked, fetches,
                   requests, nonpagevars>>

\* The caller adds a query parameter to the clone, or a body.
ConfigureClone(what) ==
    /\ cloned # <<>>
    /\ cloned[1].copy # <<>>
    /\ LET c == cloned[1].copy[1]
       IN  \/ /\ what = "query"
              /\ Len(c.query) = Len(builder.query)
              /\ cloned' = <<[copy |-> <<Query(c, QueryParam("extra", <<>>))>>]>>
           \/ /\ what = "body"
              /\ c.body = "none"
              /\ cloned' = <<[copy |-> <<Body(c)>>]>>
    /\ UNCHANGED <<server, builder, pg, emitted, failure, panicked, fetches,
                   requests, nonpagevars>>

\* fetch_paginated: the builder goes into the pagination.
Fetch_paginated(limit, starting_with) ==
    /\ pg.state = "none"
    /\ pg' = Paginated(limit, starting_with)
    /\ UNCHANGED <<server, builder, cloned, emitted, failure, panicked, fetches,
                   requests, nonpagevars>>

\* The consumer asks for more and no item is at hand: fetch_next with the
\* cursor query, and what the pagination makes of its result.
FetchPage(outcome) ==
    /\ ~panicked
    /\ pg.state = "Fetching"
    /\ LET prepared == Prepared(builder, CursorQuery(pg.marker))
       IN  IF prepared = <<>>
           THEN /\ outcome = "ok"
                /\ panicked' = TRUE
                /\ UNCHANGED <<builder, pg, failure, fetches, requests>>
           ELSE /\ fetches' = fetches + 1
                /\ requests' = IF Executes(outcome)
                               THEN Append(requests, prepared[1].query)
                               ELSE requests
                /\ builder' = BaseAfterFetchNext(builder, prepared[1])
                /\ LET r == Fetch(outcome, ServerPage(server, prepared[1].query))
                   IN  IF r.ok
                       THEN /\ pg' = AfterPage(pg, r.page)
                            /\ UNCHANGED failure
                       ELSE /\ pg' = AfterFailure(pg)
                            /\ failure' = r.err
                /\ UNCHANGED panicked
    /\ UNCHANGED <<server, cloned, emitted, nonpagevars>>

\* The consumer asks for more and an item is at hand: it is emitted.
Emit ==
    /\ ~panicked
    /\ pg.state = "HasItems"
    /\ emitted' = Append(emitted, Head(pg.buffer))
    /\ pg' = AfterEmit(pg)
    /\ UNCHANGED <<server, builder, cloned, failure, panicked, fetches, requests,
                   nonpagevars>>

Limits == {<<>>} \cup { <<l>> : l \in 0..MaxItems }
StartingWith == {<<>>, <<1>>}

PageNext ==
    \/ TryClone
    \/ \E what \in {"query", "body"} : ConfigureClone(what)
    \/ \E limit \in Limits, starting_with \in StartingWith :
            Fetch_paginated(limit, starting_with)
    \/ \E outcome \in FetchOutcomes : FetchPage(outcome)
    \/ Emit

SpecPage == PageInit /\ [][PageNext]_vars

\* ------------------------------------------------------- request pipeline
\* RequestBuilder::send_unchecked, send, fetch.
SendKinds == {"send_unchecked", "send", "fetch"}

\* What the transport makes of a request: no response (execute fails), or
\* a response with a status, a body that can be read or cannot, and that
\* deserializes as the type fetch was asked for or does not.
TransportOutcomes ==
    {[neterr |-> TRUE, status |-> 0, readable |-> FALSE, decodes |-> FALSE]}
    \cup [neterr : {FALSE}, status : {200, 404, 500}, readable : BOOLEAN,
          decodes : BOOLEAN]

\* Mutant: the request is built and sent whatever the backend returned.
AuthenticateUnchecked(c) ==
    [ok |-> TRUE, err |-> "",
     request |-> <<[client |-> c.client, token |-> c.got]>>]

\* AuthenticatedClient::authenticate, given what the backend's authenticate
\* came to (c.result, c.got): its error, the error of build for a builder
\* that holds one, or the request with the credential, for the inner client
\* of the builder's client.
Authenticate(c) ==
    IF c.result # "ok" THEN [ok |-> FALSE, err |-> c.result, request |-> <<>>]
    ELSE IF c.failed THEN [ok |-> FALSE, err |-> "BuilderError", request |-> <<>>]
    ELSE [ok |-> TRUE, err |-> "",
          request |-> <<[client |-> c.client, token |-> c.got]>>]

\* What send_unchecked, send and fetch return for the outcome of execute:
\* its error; for send_unchecked the response as it is; for send and fetch
\* the error of check for an error status (of reading the body, if that
\* fails); for fetch the error of json for a body that does not deserialize.
SendResult(kind, o) ==
    IF o.neterr THEN "ExecuteError"
    ELSE IF kind = "send_unchecked" THEN "ok"
    ELSE IF IsClientError(o.status) \/ IsServerError(o.status)
    THEN IF o.readable THEN "StatusError" ELSE "BodyReadError"
    ELSE IF kind = "fetch" /\ ~o.decodes THEN "JsonError"
    ELSE "ok"

\* RequestBuilder::header with a value that is no header value: the inner
\* builder holds the error from now on.
Header(p) ==
    /\ calls[p].pc = "built"
    /\ ~calls[p].failed
    /\ calls' = [calls EXCEPT ![p].failed = TRUE]
    /\ UNCHANGED <<now, cache, stored, clients, nextBackend, tokenRequests, othervars>>

\* The rest of authenticate and the execute after it: the request is handed
\* to the transport, or the error of authenticate is returned.
Execute(p) ==
    LET c == calls[p]
        a == Authenticate(c)
    IN  /\ c.pc = "done"
        /\ c.op = "request"
        /\ calls' = [calls EXCEPT ![p] =
              IF a.ok
              THEN [c EXCEPT !.pc = "sent", !.wire = Append(@, a.request[1])]
              ELSE [c EXCEPT !.pc = "returned", !.result = a.err]]
        /\ UNCHANGED <<now, cache, stored, clients, nextBackend, tokenRequests, othervars>>

\* The transport answers and send_unchecked returns, called by itself, by
\* send or by fetch (kind), which returns in its turn.
Respond(p, kind, o) ==
    LET c == calls[p]
    IN  /\ c.pc = "sent"
        /\ calls' = [calls EXCEPT ![p] =
              [c EXCEPT !.pc = "returned", !.result = SendResult(kind, o)]]
        /\ UNCHANGED <<now, cache, stored, clients, nextBackend, tokenRequests, othervars>>

\* The caller takes what send_unchecked, send or fetch returned.
TakeResult(p) ==
    /\ calls[p].pc = "returned"
    /\ calls' = [calls EXCEPT ![p] = IdleCall]
    /\ UNCHANGED <<now, cache, stored, clients, nextBackend, tokenRequests, othervars>>

\* Mutant: the inner client is replaced in every clone of the client.
WithInnerOfFamily(cl, h, t) ==
    [g \in Handles |->
        IF cl[g].live /\ cl[g].family = cl[h].family
        THEN [cl[g] EXCEPT !.client = t]
        ELSE cl[g]]

\* self.client = client: the handles after set_inner on h.
WithInner(cl, h, t) == [cl EXCEPT ![h].client = t]

\* AuthenticatedClient::set_inner
SetInner(h, t) ==
    /\ clients[h].live
    /\ clients[h].client # t
    /\ clients' = WithInner(clients, h, t)
    /\ UNCHANGED <<now, cache, stored, nextBackend, calls, tokenRequests, othervars>>

\* The answers of the identity service to the token requests of the
\* pipeline: no answer, or a credential with the longest of the expiries.
PipelineTokenResponses ==
    { resp \in TokenResponses :
        \/ resp.status = "neterr"
        \/ /\ resp.header \in TokenValues
           /\ resp.body # <<>>
           /\ resp.body[1].expires_at = TOKEN_MIN_VALIDITY + 1 }

\* In the pipeline one task sends requests, one after the other, through
\* any handle, while the other tasks call refresh through any handle and
\* the handles are cloned and given new backends and inner clients.
Senders == {1}
Refreshers == Procs \ Senders

SendNext ==
    \/ \E p \in Senders, h \in Handles : NewRequest(p, h)
    \/ \E p \in Senders : Header(p)
    \/ \E p \in Senders : Send(p)
    \/ \E p \in Procs, resp \in PipelineTokenResponses : TokenResponse(p, resp)
    \/ \E p \in Senders : Extract(p, "compute", <<>>)
    \/ \E p \in Senders : Execute(p)
    \/ \E p \in Senders, kind \in SendKinds, o \in TransportOutcomes : Respond(p, kind, o)
    \/ \E p \in Senders : TakeResult(p)
    \/ \E p \in Refreshers, h \in Handles : Refresh(p, h)
    \/ \E p \in Refreshers : calls[p].op = "refresh" /\ Return(p)
    \/ \E h \in Handles, h2 \in Handles : Clone(h, h2)
    \/ \E h \in Handles : SetAuthType(h)
    \/ \E h \in Handles, t \in Transports : SetInner(h, t)

SpecSend == Init /\ [][SendNext]_vars

\* ------------------------------------------------- refresh and the cache
\* The step in which p's call enters do_refresh (refresh, send, get_endpoint).
Starts(p) == calls[p].pc \in {"idle", "built"} /\ calls'[p].pc \notin {"idle", "built"}

\* The step in which p's call reads the cache after do_refresh succeeded.
Extracts(p) == calls[p].pc = "extract" /\ calls'[p].pc = "done"

\* The step in which p's refresh call returns successfully.
RefreshReturnsOk(p) ==
    /\ calls[p].pc # "done"
    /\ calls'[p].pc = "done"
    /\ calls'[p].op = "refresh"
    /\ calls'[p].result = "ok"

\* The slot holds a credential expiring more than 10 minutes after instant n.
FreshFor10(slot, n) == Len(slot) = 1 /\ slot[1].expires_at - n > 10

\* The errors a failed token request may end in.
TypedErrors == {"TransportError", "StatusError", "InvalidResponse", "DecodeError"}

\* C1: a call that finds in the cache a credential expiring more than 10
\* minutes after the current time issues no token request, leaves the cache
\* as it is, and its refresh completes successfully at once (a refresh call
\* returns ok; authenticate and get_endpoint go on to read the cache).
C1_ValidIssuesNoRequest ==
    [][\A p \in Procs :
        (Starts(p) /\ FreshFor10(cache[calls'[p].auth], now)) =>
            /\ tokenRequests' = tokenRequests
            /\ cache' = cache
            /\ calls'[p].sent = 0
            /\ (calls'[p].op = "refresh" =>
                    calls'[p].pc = "done" /\ calls'[p].result = "ok")
            /\ (calls'[p].op # "refresh" => calls'[p].pc = "extract")]_vars

\* A refresh returned ok without a request, on a cache filled by an earlier one.
C1_Witness ==
    \E p \in Procs :
        /\ calls[p].pc = "done" /\ calls[p].op = "refresh"
        /\ calls[p].result = "ok" /\ calls[p].sent = 0
        /\ FreshFor10(cache[calls[p].auth], now)
        /\ tokenRequests >= 1

\* C2: a call that finds the cache empty, or holding a credential with 10
\* minutes or less left (exactly 10 included), issues exactly one token
\* request, whatever other calls are in flight; and no other step of any
\* call issues a token request (no retry, no request on the valid path).
C2_InvalidIssuesExactlyOne ==
    [][/\ \A p \in Procs :
            (Starts(p) /\ ~FreshFor10(cache[calls'[p].auth], now)) =>
                /\ tokenRequests' = tokenRequests + 1
                /\ calls'[p].pc = "wait"
                /\ calls'[p].sent = 1
       /\ tokenRequests' # tokenRequests =>
            \E p \in Procs :
                /\ Starts(p)
                /\ ~FreshFor10(cache[calls'[p].auth], now)
                /\ tokenRequests' = tokenRequests + 1]_vars

\* Two callers on one backend, each having found the cache invalid, are both
\* waiting for a token request of their own: two requests were issued.
C2_Witness ==
    /\ calls[1].pc = "wait" /\ calls[2].pc = "wait"
    /\ calls[1].auth = calls[2].auth
    /\ calls[1].sent = 1 /\ calls[2].sent = 1
    /\ tokenRequests = 2

\* C3 as claimed: when a refresh call returns successfully, the cache holds a
\* credential expiring more than 10 minutes after the current time.
C3_Original ==
    [][\A p \in Procs :
        RefreshReturnsOk(p) => FreshFor10(cache'[calls'[p].auth], now')]_vars

\* C3 amended: when a refresh call returns successfully the cache holds a
\* credential: the one the call found valid (more than 10 minutes left), or,
\* if the call issued a token request, the credential of that response,
\* stored whole and as received, whatever its expiry.
C3_RefreshLeavesCredential ==
    [][\A p \in Procs :
        RefreshReturnsOk(p) =>
            LET b == calls'[p].auth
                f == calls'[p].family
            IN  /\ Len(cache'[b]) = 1
                /\ (calls'[p].sent = 0 => FreshFor10(cache'[b], now'))
                /\ (calls'[p].sent # 0 =>
                        /\ stored'[f].by = calls'[p].via
                        /\ cache'[b] = stored'[f].slot)]_vars

\* A refresh returned ok after a token request whose credential the service
\* issued with 10 minutes or less left.
C3_Witness ==
    \E p \in Procs :
        /\ calls[p].pc = "done" /\ calls[p].op = "refresh"
        /\ calls[p].result = "ok" /\ calls[p].sent = 1
        /\ Len(cache[calls[p].auth]) = 1
        /\ ~FreshFor10(cache[calls[p].auth], now)

\* The response makes the token request fail.
FailingResponse(resp) ==
    resp.status # "http_ok" \/ resp.header \in {"missing", "invalid"} \/ resp.body = <<>>

\* C4: a token request that fails (transport error, error status, missing or
\* invalid x-subject-token header, undecodable body) ends the call with a
\* typed error, InvalidResponse for the header cases, and leaves every cache
\* slot as it was.
C4_FailedRefreshKeepsCache ==
    [][\A p \in Procs : \A resp \in TokenResponses :
        (TokenResponse(p, resp) /\ FailingResponse(resp)) =>
            /\ cache' = cache
            /\ calls'[p].pc = "done"
            /\ calls'[p].result \in TypedErrors
            /\ (resp.status = "http_ok" /\ resp.header \in {"missing", "invalid"}
                    => calls'[p].result = "InvalidResponse")]_vars

\* A refresh ended in InvalidResponse while the old credential is in place.
C4_Witness ==
    \E p \in Procs :
        /\ calls[p].pc = "done" /\ calls[p].op = "refresh"
        /\ calls[p].result = "InvalidResponse" /\ calls[p].sent = 1
        /\ Len(cache[calls[p].auth]) = 1

\* C5: an authenticate or get_endpoint call that starts on a cache holding a
\* credential C with more than 10 minutes left issues no token request, and,
\* no set happening before it reads the cache, it observes C: authenticate
\* attaches C's value, get_endpoint resolves against C's catalog.
C5_CompletedRefreshIsVisible ==
    [][\A p \in Procs :
        /\ (Starts(p) /\ calls'[p].op # "refresh"
                /\ FreshFor10(cache[calls'[p].auth], now)) =>
              /\ tokenRequests' = tokenRequests
              /\ calls'[p].pc = "extract"
              /\ calls'[p].sent = 0 /\ ~calls'[p].dirty
        /\ (Extracts(p) /\ calls[p].sent = 0 /\ ~calls[p].dirty) =>
              LET b == calls[p].auth
              IN  /\ Len(cache[b]) = 1
                  /\ stored[calls[p].family].by # 0
                  /\ calls'[p].op = "request" =>
                        /\ calls'[p].result = "ok"
                        /\ calls'[p].got = cache[b][1].value
                  /\ calls'[p].op = "get_endpoint" =>
                        LET r == ResolveEndpoint(cache[b][1].catalog, calls'[p].service,
                                                 calls'[p].iface, RegionOf(b))
                        IN  calls'[p].result = r.result /\ calls'[p].got = r.got]_vars

\* get_endpoint returned the URL found in the cached credential's catalog,
\* without a token request of its own and no set in between.
C5_Witness ==
    \E p \in Procs :
        /\ calls[p].pc = "done" /\ calls[p].op = "get_endpoint"
        /\ calls[p].result = "ok" /\ calls[p].sent = 0 /\ ~calls[p].dirty
        /\ calls[p].got = "http://b/compute-r1"
        /\ cache[calls[p].auth] # <<>>
        /\ cache[calls[p].auth][1].value = "tokB"

\* C6: the clones of a client (handles of one family) point to one backend,
\* and a request sent through a handle other than the one whose refresh
\* stored the family's credential C, C having more than 10 minutes left,
\* issues no token request and attaches C's value.
C6_ClonesShareCache ==
    /\ [](\A h1 \in Handles, h2 \in Handles :
            (clients[h1].live /\ clients[h2].live
                /\ clients[h1].family = clients[h2].family)
            => clients[h1].auth = clients[h2].auth)
    /\ [][\A p \in Procs :
            LET f == calls'[p].family
                other == stored[f].by \notin {0, calls'[p].via}
            IN  /\ (Starts(p) /\ calls'[p].op = "request" /\ other
                        /\ FreshFor10(stored[f].slot, now)) =>
                      /\ tokenRequests' = tokenRequests
                      /\ calls'[p].pc = "extract"
                /\ (Extracts(p) /\ calls'[p].op = "request" /\ other
                        /\ calls[p].sent = 0 /\ ~calls[p].dirty) =>
                      /\ calls'[p].result = "ok"
                      /\ Len(stored[f].slot) = 1
                      /\ calls'[p].got = stored[f].slot[1].value]_vars

\* A request through one handle attached the credential that a refresh
\* through the other handle of the family stored.
C6_Witness ==
    \E p \in Procs :
        /\ calls[p].pc = "done" /\ calls[p].op = "request"
        /\ calls[p].result = "ok" /\ calls[p].sent = 0 /\ ~calls[p].dirty
        /\ stored[calls[p].family].by \notin {0, calls[p].via}
        /\ calls[p].got = stored[calls[p].family].slot[1].value

\* C7: the cache slot is empty or holds exactly the last credential handed
\* to set, whole; the validity check and the extraction leave every slot
\* unchanged; the check succeeds iff the slot is non-empty and the predicate
\* (more than 10 minutes left) holds of its credential; the extraction
\* yields the mapped field of the credential in the slot, and nothing
\* (the unwrap fails) iff the slot is empty.
C7_CacheContract ==
    /\ [](\A b \in Backends :
            /\ cache[b] = stored[b].slot
            /\ cache[b] = <<>> \/ (Len(cache[b]) = 1 /\ cache[b][1] \in Tokens))
    /\ [][\A p \in Procs :
            /\ Starts(p) =>
                  /\ cache' = cache
                  /\ calls'[p].pc # "wait" <=> FreshFor10(cache[calls'[p].auth], now)
            /\ Extracts(p) =>
                  LET slot == cache[calls[p].auth]
                  IN  /\ cache' = cache
                      /\ calls'[p].result = "panic" <=> slot = <<>>
                      /\ (slot # <<>> /\ calls'[p].op = "request") =>
                            calls'[p].got = slot[1].value]_vars

\* A request read the cache after a concurrent refresh had replaced the
\* credential it had validated, and attached the new credential's value.
C7_Witness ==
    \E p \in Procs :
        /\ calls[p].pc = "done" /\ calls[p].op = "request"
        /\ calls[p].dirty /\ calls[p].sent = 0
        /\ calls[p].result = "ok"
        /\ calls[p].got = cache[calls[p].auth][1].value

\* ------------------------------------------------------ message extraction
IsStr(v) == v.t = "str"

\* The object has no message field of a type other than string (or null).
WellTyped(o) == \A k \in MessageFields : o[k].t \in {"absent", "null", "str"}

\* One of message, faultstring, title is present.
HasMessage(o) == IsStr(o.message) \/ IsStr(o.faultstring) \/ IsStr(o.title)

\* message if present, otherwise faultstring if present, otherwise title.
Priority(o) ==
    IF IsStr(o.message) THEN o.message.s
    ELSE IF IsStr(o.faultstring) THEN o.faultstring.s
    ELSE o.title.s

\* The body is the JSON text of an object, and the message was extracted.
ExtractedFromObject == extracted # <<>> /\ body.j = "json" /\ body.v.t = "obj"

\* C8: from a body that is an error-message object, the extracted message is
\* message if present, otherwise faultstring if present, otherwise title if
\* present, and with one of them present error_message is not followed.
C8_FieldPriority ==
    (ExtractedFromObject /\ WellTyped(body.v.o) /\ HasMessage(body.v.o)) =>
        /\ extracted[1] = Priority(body.v.o)
        /\ depth = 0

\* faultstring won over title, and over an error_message that encodes an
\* object with a message.
C8_Witness ==
    /\ ExtractedFromObject
    /\ body.v.o.message = Absent
    /\ IsStr(body.v.o.faultstring) /\ IsStr(body.v.o.title)
    /\ IsStr(body.v.o.error_message)
    /\ body.v.o.error_message.s.j = "json"
    /\ IsStr(body.v.o.error_message.s.v.o.message)
    /\ extracted[1] = Raw("faultstring 2")

\* The text encodes an error-message object with one of the three fields.
EncodesMessage(text) ==
    /\ text.j = "json"
    /\ text.v.t = "obj"
    /\ WellTyped(text.v.o)
    /\ HasMessage(text.v.o)

\* The text is the JSON text of an array.
EncodesArray(text) == text.j = "json" /\ text.v.t = "arr"

\* C9: convert calls itself at most once; from an error-message object with
\* none of message, faultstring, title but a string error_message, the
\* extracted message is taken by the three-field priority from the object
\* error_message encodes, and is the raw body if that object has none of
\* the three (its own error_message is not followed) or if the string is
\* not JSON or encodes an object that is no error-message object.
C9_OneLevelOfRecursion ==
    /\ depth <= 1
    /\ (ExtractedFromObject /\ WellTyped(body.v.o) /\ ~HasMessage(body.v.o)
            /\ IsStr(body.v.o.error_message)) =>
          LET inner == body.v.o.error_message.s
          IN  IF EncodesMessage(inner)
              THEN extracted[1] = Priority(inner.v.o) /\ depth = 1
              ELSE ~EncodesArray(inner) => extracted[1] = body

\* The error_message of the body encodes an object whose only field is an
\* error_message that encodes an object with a message: the raw body came out.
C9_Witness ==
    /\ ExtractedFromObject
    /\ KeysOf(body.v.o) = {"error_message"}
    /\ IsStr(body.v.o.error_message)
    /\ body.v.o.error_message.s.j = "json"
    /\ KeysOf(body.v.o.error_message.s.v.o) = {"error_message"}
    /\ IsStr(body.v.o.error_message.s.v.o.error_message)
    /\ EncodesMessage(body.v.o.error_message.s.v.o.error_message.s)
    /\ extracted[1] = body
    /\ depth = 1

\* C10: from a body that is an object with a single key, whatever the key,
\* whose value is an error-message object with one of message, faultstring,
\* title, the extracted message is that object's, by the field priority.
C10_NestedUnderOneKey ==
    ExtractedFromObject =>
        \A k \in Keys :
            (KeysOf(body.v.o) = {k} /\ body.v.o[k].t = "obj"
                /\ WellTyped(body.v.o[k].o) /\ HasMessage(body.v.o[k].o))
            => extracted[1] = Priority(body.v.o[k].o)

\* The single key is error_message and its object has faultstring and title.
C10_Witness ==
    /\ ExtractedFromObject
    /\ KeysOf(body.v.o) = {"error_message"}
    /\ body.v.o.error_message.t = "obj"
    /\ KeysOf(body.v.o.error_message.o) = {"faultstring", "title"}
    /\ extracted[1] = Raw("faultstring 1")

\* The object is an error-message object from which a message is to be had:
\* one of message, faultstring, title, or an error_message that encodes an
\* error-message object with one of the three.
ObjYields(o) ==
    /\ WellTyped(o)
    /\ \/ HasMessage(o)
       \/ IsStr(o.error_message) /\ EncodesMessage(o.error_message.s)

\* The object maps each of its keys to an error-message object.
MapOfMessages(o) == \A k \in KeysOf(o) : o[k].t = "obj" /\ WellTyped(o[k].o)

\* The text has one of the accepted shapes and a message is to be had from
\* it, or from one of its entries if it is a mapping.
CanExtract(text) ==
    /\ text.j = "json"
    /\ text.v.t = "obj"
    /\ \/ ObjYields(text.v.o)
       \/ MapOfMessages(text.v.o)
            /\ \E k \in KeysOf(text.v.o) : ObjYields(text.v.o[k].o)

\* C11: when no message is to be had from the body (it is not JSON, has
\* neither of the accepted shapes, has none of the message fields, or has an
\* error_message that is not JSON or encodes nothing with a message field),
\* the extracted message is the raw body.
C11_RawBodyFallback ==
    (extracted # <<>> /\ ~CanExtract(body)) => extracted[1] = body

\* ------------------------------------------------------------------ check
\* The status is in the 4xx or the 5xx range.
ErrorStatus == 400 <= status /\ status <= 599

\* The response check was given.
GivenResponse == [status |-> status, body |-> body]

\* C12 as claimed: check returns the response unchanged exactly when the
\* status is outside the 4xx and 5xx ranges, and for every 4xx or 5xx status
\* an error that carries the status and the extracted message.
C12_Original ==
    checked # <<>> =>
        /\ checked[1].ok <=> ~ErrorStatus
        /\ checked[1].ok => checked[1].response = <<GivenResponse>>
        /\ ~checked[1].ok =>
              /\ checked[1].status = <<status>>
              /\ extracted # <<>>
              /\ checked[1].message = extracted

\* C12 amended: check returns the response unchanged exactly when the status
\* is outside the 4xx and 5xx ranges; for a 4xx or 5xx status it returns an
\* error, never the response: the error carries the status and the
\* extracted message if the body could be read, and is the error of
\* reading the body otherwise.
C12_CheckByStatus ==
    checked # <<>> =>
        /\ checked[1].ok <=> ~ErrorStatus
        /\ checked[1].ok => checked[1].response = <<GivenResponse>>
        /\ ~checked[1].ok =>
              /\ checked[1].response = <<>>
              /\ \/ /\ checked[1].status = <<status>>
                    /\ extracted # <<>>
                    /\ checked[1].message = extracted
                 \/ /\ checked[1] = BodyReadError
                    /\ extracted = <<>>

\* check returned an error with status 500 and the message of the body's
\* faultstring.
C12_Witness ==
    /\ checked # <<>>
    /\ status = 500
    /\ ~checked[1].ok
    /\ checked[1].status = <<500>>
    /\ checked[1].message = <<Raw("faultstring 2")>>

\* ------------------------------------------------------ endpoint resolution
\* The interface asked for, the default one if none was given.
AskedInterface ==
    IF query.interface = <<>> THEN "public" ELSE query.interface[1]

\* The positions in the catalog of the records of the service type asked for.
RecordsOfType == { j \in 1..Len(catalog) : catalog[j].type = query.service_type }

\* The positions in record j of the endpoints with the interface asked
\* for, and of those among them in the region asked for.
WithInterface(j) ==
    { i \in 1..Len(catalog[j].endpoints) :
        catalog[j].endpoints[i].interface = AskedInterface }
WithRegion(j) ==
    { i \in WithInterface(j) : catalog[j].endpoints[i].region = query.region }

\* The least number of a non-empty set of numbers.
Least(S) == CHOOSE x \in S : \A y \in S : x <= y

\* find_endpoint and get_endpoint failed with EndpointNotFound, without a URL.
NotFound ==
    /\ ~lookup[1].found.ok
    /\ lookup[1].found.err = "EndpointNotFound"
    /\ lookup[1].found.url = ""
    /\ lookup[1].result = [result |-> "EndpointNotFound", got |-> ""]

\* find_endpoint and get_endpoint returned the URL of endpoint i of record j.
Returned(j, i) ==
    /\ lookup[1].found.ok
    /\ lookup[1].found.url = catalog[j].endpoints[i].url
    /\ lookup[1].result = [result |-> "ok", got |-> catalog[j].endpoints[i].url]

\* C13: resolution fails with EndpointNotFound, and returns no URL, when no
\* record has the service type asked for, and when no endpoint of the
\* records of that type has the interface asked for.
C13_NotFound ==
    (lookup # <<>> /\ \A j \in RecordsOfType : WithInterface(j) = {}) => NotFound

\* A record of the type asked for has endpoints, none of the interface
\* asked for: EndpointNotFound.
C13_Witness ==
    /\ lookup # <<>>
    /\ RecordsOfType # {}
    /\ \E j \in RecordsOfType : Len(catalog[j].endpoints) = MaxEndpoints
    /\ \A j \in RecordsOfType : WithInterface(j) = {}
    /\ NotFound

\* C14: when several endpoints of the record remain after the filtering by
\* interface and region, resolution succeeds with the first of them in
\* catalog order.
C14_FirstInCatalogOrder ==
    (lookup # <<>> /\ RecordsOfType # {}) =>
        LET j == Least(RecordsOfType)
            remain == IF query.region # <<>> /\ WithRegion(j) # {}
                      THEN WithRegion(j) ELSE WithInterface(j)
        IN  Cardinality(remain) >= 2 => Returned(j, Least(remain))

\* Two endpoints of the interface and region asked for: the first came out.
C14_Witness ==
    /\ lookup # <<>>
    /\ RecordsOfType # {}
    /\ query.region # <<>>
    /\ Cardinality(WithRegion(Least(RecordsOfType))) >= 2
    /\ Returned(Least(RecordsOfType), 1)

\* C15: with a region given, resolution returns the first endpoint of the
\* interface and the region if there is one, the first endpoint of the
\* interface alone if none is in the region, and fails with EndpointNotFound
\* only if no endpoint has the interface.
C15_RegionPreferred ==
    (lookup # <<>> /\ RecordsOfType # {} /\ query.region # <<>>) =>
        LET j == Least(RecordsOfType)
        IN  /\ WithRegion(j) # {} => Returned(j, Least(WithRegion(j)))
            /\ (WithRegion(j) = {} /\ WithInterface(j) # {})
                    => Returned(j, Least(WithInterface(j)))
            /\ NotFound <=> WithInterface(j) = {}

\* No endpoint of the interface is in the region asked for: the first of
\* the interface came out.
C15_Witness ==
    /\ lookup # <<>>
    /\ RecordsOfType # {}
    /\ query.region # <<>>
    /\ WithInterface(Least(RecordsOfType)) # {}
    /\ WithRegion(Least(RecordsOfType)) = {}
    /\ Returned(Least(RecordsOfType), Least(WithInterface(Least(RecordsOfType))))

\* --------------------------------------------------------------- pagination
\* The items 1..n in the server's order.
UpTo(n) == [i \in 1..n |-> i]

\* n / p rounded up.
Ceil(n, p) == (n + p - 1) \div p

\* The listing has no starting identifier; it has ended without an error.
FromTheStart == pg.state # "none" /\ pg.starting_with = <<>>
Ended == pg.state = "Exhausted" /\ failure = ""

C17_LimitStopsFetching ==
    /\ []((FromTheStart /\ pg.limit # <<>>) =>
            /\ emitted = UpTo(Len(emitted))
            /\ Len(emitted) <= pg.limit[1]
            /\ (Ended /\ pg.limit[1] < server.items) => emitted = UpTo(pg.limit[1]))
    /\ [][(fetches' # fetches \/ requests' # requests)
            => ~LimitReached(pg.limit, Len(emitted))]_vars

\* Limit three, four items in pages of two: the fourth item was dropped.
C17_Witness ==
    /\ FromTheStart /\ Ended
    /\ pg.limit = <<3>>
    /\ server = [items |-> 4, pageSize |-> 2]
    /\ emitted = <<1, 2, 3>>
    /\ fetches = 2

\* The identifier the listing starts after, 0 for none.
StartedAfter == IF pg.starting_with = <<>> THEN 0 ELSE pg.starting_with[1]

\* C18: a page fetch that fails for any reason makes the sequence yield that
\* error and end; the items of the pages fetched before have all been
\* emitted, in order; after the error no item is emitted and no page fetched.
C18_FailureIsTerminal ==
    /\ [](failure # "" =>
            /\ pg.state = "Exhausted"
            /\ pg.buffer = <<>>
            /\ emitted = [i \in 1..Len(emitted) |-> StartedAfter + i]
            /\ pg.marker = (IF emitted = <<>> THEN pg.starting_with
                            ELSE <<StartedAfter + Len(emitted)>>))
    /\ [][\A outcome \in FetchOutcomes \ {"ok"} :
            FetchPage(outcome) => failure' = outcome /\ emitted' = emitted]_vars
    /\ [][failure # "" =>
            /\ failure' = failure
            /\ emitted' = emitted
            /\ fetches' = fetches
            /\ requests' = requests]_vars

\* The second page did not deserialize: the first page's items are out.
C18_Witness ==
    /\ failure = "json"
    /\ server.pageSize = 2
    /\ emitted = <<1, 2>>
    /\ fetches = 2

\* C19: neither what the caller adds to a clone nor any page fetch changes
\* the base builder, and each page request has the query of the base
\* builder and its own cursor query, nothing else.
C19_BaseBuilderUntouched ==
    /\ [][builder' = builder]_vars
    /\ [](\A k \in 1..Len(requests) :
            /\ Len(requests[k]) = Len(builder.query) + 1
            /\ SubSeq(requests[k], 1, Len(builder.query)) = builder.query
            /\ requests[k][Len(requests[k])].k = "marker")

\* The caller gave the clone a query parameter and a body, and three pages
\* were requested with the base builder's query.
C19_Witness ==
    /\ cloned # <<>>
    /\ cloned[1].copy # <<>>
    /\ cloned[1].copy[1].body = "bytes"
    /\ Len(cloned[1].copy[1].query) = 2
    /\ builder.body = "none"
    /\ Len(builder.query) = 1
    /\ Len(requests) = 3

\* try_clone has no clone for the builder.
NotCloneable == builder.body = "stream" \/ builder.failed

\* C20 as claimed: a builder can be cloned exactly when its body is no
\* stream, and an attempt to clone one with a streaming body is fatal.
C20_Original ==
    /\ cloned # <<>> => (cloned[1].copy # <<>> <=> builder.body # "stream")
    /\ (cloned # <<>> /\ builder.body = "stream") => panicked
    /\ panicked => requests = <<>>

\* C20 amended: try_clone returns a clone exactly when the body of the
\* builder is no stream and its request no error of an earlier step, and
\* returns nothing otherwise, which is not fatal; a page fetch on a builder
\* that has no clone panics, and neither sends a request.
C20_CloneUnlessStream ==
    /\ [](cloned # <<>> => (cloned[1].copy # <<>> <=> ~NotCloneable))
    /\ [][TryClone => panicked' = panicked /\ requests' = requests]_vars
    /\ [](panicked => NotCloneable)
    /\ [][(NotCloneable /\ FetchPage("ok")) => panicked']_vars
    /\ [](NotCloneable => requests = <<>> /\ fetches = 0 /\ failure = "")

\* try_clone returned nothing for a builder with a streaming body, the
\* caller went on, and the listing then panicked at its first fetch.
C20_Witness ==
    /\ builder.body = "stream"
    /\ ~builder.failed
    /\ cloned # <<>>
    /\ cloned[1].copy = <<>>
    /\ panicked
    /\ requests = <<>>

\* --------------------------------------------------------- request pipeline
\* The call of p is a request whose authenticate has returned from the
\* backend; it has succeeded if the backend gave a credential and the
\* builder builds.
AuthenticateReturned(c) == c.pc = "done" /\ c.op = "request"
AuthenticateSucceeded(c) == c.result = "ok" /\ c.got \in TokenValues /\ ~c.failed

\* C21: a send, send_unchecked or fetch call hands its request to the
\* transport at most once, and only after authenticate has succeeded, with
\* the credential authenticate read; if authenticate fails its error is
\* returned and no request reaches the transport; when the transport has
\* answered the call returns (an execute error, and for send and fetch an
\* error status, as an error) without another request to the transport or to
\* the identity service.
C21_AuthenticateBeforeExecute ==
    /\ [](\A p \in Procs : Len(calls[p].wire) <= 1)
    /\ [][\A p \in Procs :
            LET c == calls[p]
                d == calls'[p]
            IN  /\ (d.wire # c.wire /\ d.pc # "idle") =>
                      /\ AuthenticateReturned(c)
                      /\ AuthenticateSucceeded(c)
                      /\ c.wire = <<>>
                      /\ d.wire = <<[client |-> c.client, token |-> c.got]>>
                /\ (AuthenticateReturned(c) /\ ~AuthenticateSucceeded(c) /\ d # c) =>
                      /\ d.pc = "returned"
                      /\ d.result # "ok"
                      /\ c.result # "ok" => d.result = c.result
                      /\ d.wire = <<>>
                /\ (c.pc = "sent" /\ d # c) =>
                      /\ d.pc = "returned"
                      /\ d.wire = c.wire
                      /\ tokenRequests' = tokenRequests
                      /\ cache' = cache
                /\ (c.pc = "returned" /\ d # c) =>
                      /\ d = IdleCall
                      /\ tokenRequests' = tokenRequests]_vars
    /\ [][\A p \in Procs :
            (calls[p].pc = "sent" /\ calls'[p].pc = "returned") =>
                \A kind \in SendKinds, o \in TransportOutcomes :
                    Respond(p, kind, o) =>
                        /\ o.neterr => calls'[p].result = "ExecuteError"
                        /\ (~o.neterr /\ kind = "send_unchecked") =>
                              calls'[p].result = "ok"
                        /\ (~o.neterr /\ kind # "send_unchecked"
                                /\ o.status \in 400..599) =>
                              calls'[p].result \in {"StatusError", "BodyReadError"}]_vars

\* A send or fetch returned the error of an error status, after one token
\* request of its own and one request handed to the transport.
C21_Witness ==
    \E p \in Procs :
        /\ calls[p].pc = "returned"
        /\ calls[p].result = "StatusError"
        /\ calls[p].sent = 1
        /\ Len(calls[p].wire) = 1
        /\ calls[p].wire[1].token = cache[calls[p].auth][1].value

\* ------------------------------------------------------------ get_endpoint
\* The step in which the token request of p's get_endpoint call fails.
GetEndpointRefreshFails(p) ==
    /\ calls[p].op = "get_endpoint"
    /\ calls[p].pc = "wait"
    /\ calls'[p].pc = "done"

\* C22: get_endpoint goes through refresh before it reads anything; it then
\* looks in the catalog of the credential the cache holds at that moment for
\* the service type, the interface of the caller (public when none is
\* given) and the region of the backend; it returns the resolver's
\* EndpointNotFound as it is, InvalidResponse when the URL of the endpoint
\* found does not parse, and the URL otherwise; when the refresh fails it
\* returns that error and reads neither cache nor catalog.
C22_GetEndpoint ==
    [][\A p \in Procs :
        LET c == calls[p]
            d == calls'[p]
        IN  /\ (Starts(p) /\ d.op = "get_endpoint") =>
                  /\ d.pc \in {"wait", "extract"}
                  /\ d.pc = "extract" <=> FreshFor10(cache[d.auth], now)
                  /\ d.result = "none" /\ d.got = ""
            /\ (Extracts(p) /\ c.op = "get_endpoint" /\ cache[c.auth] # <<>>) =>
                  LET found == FindEndpoint(cache[c.auth][1].catalog, d.service,
                                            IF d.iface = <<>> THEN "public"
                                            ELSE d.iface[1],
                                            RegionOf(c.auth))
                  IN  /\ ~found.ok =>
                            /\ found.err = "EndpointNotFound"
                            /\ d.result = "EndpointNotFound" /\ d.got = ""
                      /\ (found.ok /\ ~UrlParses(found.url)) =>
                            d.result = "InvalidResponse" /\ d.got = ""
                      /\ (found.ok /\ UrlParses(found.url)) =>
                            d.result = "ok" /\ d.got = found.url
            /\ GetEndpointRefreshFails(p) =>
                  /\ d.result \in TypedErrors
                  /\ d.got = "" /\ d.service = "" /\ d.iface = <<>>
                  /\ cache' = cache]_vars

\* get_endpoint found, for the internal interface, the endpoint of another
\* region than the backend's, whose URL is no URL: InvalidResponse.
C22_Witness ==
    \E p \in Procs :
        /\ calls[p].pc = "done" /\ calls[p].op = "get_endpoint"
        /\ calls[p].service = "compute" /\ calls[p].iface = <<"internal">>
        /\ calls[p].result = "InvalidResponse" /\ calls[p].got = ""
        /\ cache[calls[p].auth] # <<>>
        /\ cache[calls[p].auth][1].catalog = CatalogA
        /\ RegionOf(calls[p].auth) = <<"R1">>

\* ------------------------------------------------------- cache never empty
\* C23: a cache slot that holds a credential never becomes empty again, a
\* call that has come through do_refresh and is about to read the cache
\* finds a credential in it, whatever the other calls do meanwhile, and no
\* call ends in the panic of the unwrap in get_token and get_catalog.
C23_CacheNeverEmptied ==
    /\ [][\A b \in Backends : cache[b] # <<>> => cache'[b] # <<>>]_vars
    /\ [](\A p \in Procs :
            /\ calls[p].pc = "extract" =>
                  /\ GetToken(cache[calls[p].auth]) # <<>>
                  /\ GetCatalog(cache[calls[p].auth]) # <<>>
            /\ calls[p].result # "panic")

\* A request read a credential from the cache of a backend on which the
\* token request of another call had failed, the credential in the cache
\* having 10 minutes or less left.
C23_Witness ==
    \E p \in Procs, q \in Procs :
        /\ p # q
        /\ calls[p].auth = calls[q].auth
        /\ calls[p].pc = "done" /\ calls[p].op = "request"
        /\ calls[p].result = "ok"
        /\ calls[q].pc = "done" /\ calls[q].result \in TypedErrors
        /\ calls[q].sent = 1
        /\ cache[calls[p].auth] # <<>>
        /\ ~FreshFor10(cache[calls[p].auth], now)
        /\ calls[p].got = cache[calls[p].auth][1].value

\* ---------------------------------------------- extraction as a function
\* C24: the extracted message is a function of the body: whichever entry of
\* a body that maps several keys to error-message objects is consulted, the
\* message is the one that was extracted.
C24_ExtractionIsAFunction ==
    extracted # <<>> =>
        \A first \in FirstKeys(body) :
            ExtractMessage(body, first).message = extracted[1]

\* ------------------------------------------- set_auth_type and set_inner
\* The step changes the backend or the inner client of the live handle h.
Replaces(h) == clients[h].live /\ clients'[h] # clients[h]

\* C25: set_auth_type and set_inner change one handle, and of it only the
\* backend, respectively the inner client; the other handles (the clones
\* made before), the calls under way (the builders created before), and
\* every cache are as they were; a builder keeps the backend and the inner
\* client it was created with until it returns, reads the credential in the
\* cache of that backend, and hands its request to that inner client;
\* whereas the handles of one family, for as long as none is given a new
\* backend, point to one backend, whose cache a refresh through any of
\* them fills for all.
C25_SettersAreLocal ==
    /\ [][\A h \in Handles :
            Replaces(h) =>
                /\ \A g \in Handles \ {h} : clients'[g] = clients[g]
                /\ calls' = calls
                /\ cache' = cache
                /\ stored' = stored
                /\ clients'[h].live
                /\ \/ /\ clients'[h].auth # clients[h].auth
                      /\ clients'[h].client = clients[h].client
                      /\ cache[clients'[h].auth] = <<>>
                      /\ \A g \in Handles \ {h} :
                            clients[g].live => clients[g].auth # clients'[h].auth
                   \/ /\ clients'[h].client # clients[h].client
                      /\ clients'[h].auth = clients[h].auth
                      /\ clients'[h].family = clients[h].family]_vars
    /\ [][\A p \in Procs :
            LET c == calls[p]
                d == calls'[p]
            IN  /\ (c.pc # "idle" /\ d.pc # "idle") =>
                      d.auth = c.auth /\ d.client = c.client /\ d.via = c.via
                /\ (Extracts(p) /\ c.op = "request") =>
                      d.got = cache[c.auth][1].value
                /\ (d.wire # c.wire /\ d.pc # "idle") =>
                      d.wire = <<[client |-> c.client, token |-> c.got]>>]_vars
    /\ [](\A g \in Handles, h \in Handles :
            (clients[g].live /\ clients[h].live
                /\ clients[g].family = clients[h].family)
            => clients[g].auth = clients[h].auth)
    /\ [][\A p \in Procs :
            (RefreshReturnsOk(p) /\ calls[p].sent = 1) =>
                \A h \in Handles :
                    (clients[h].live /\ clients[h].family = calls[p].family) =>
                        cache'[clients[h].auth] = stored'[calls[p].family].slot]_vars

\* A builder created through a handle that was then cloned and given a new
\* backend and a new inner client handed its request to the previous inner
\* client, with the credential of the previous backend, which the clone
\* still points to; the new backend's cache is empty.
C25_Witness ==
    \E p \in Procs, h \in Handles :
        /\ calls[p].pc = "sent"
        /\ clients[calls[p].via].auth # calls[p].auth
        /\ clients[calls[p].via].client # calls[p].client
        /\ calls[p].wire = <<[client |-> calls[p].client,
                              token |-> cache[calls[p].auth][1].value]>>
        /\ h # calls[p].via
        /\ clients[h].live
        /\ clients[h].auth = calls[p].auth
        /\ clients[h].client = calls[p].client
        /\ cache[clients[calls[p].via].auth] = <<>>

====
